---- MODULE Spec2Model ----
(***************************************************************************)
(* State-machine model of the caching / background-task core of the        *)
(* sobeys_scctower backend:                                                *)
(*   - backend/core.py   : execute_sql and its in-memory TTL cache         *)
(*   - backend/router.py : the chat task store (_chat_tasks), the worker   *)
(*                         thread _run_mas_task, start_chat, poll_chat and *)
(*                         _cleanup_old_tasks                              *)
(* Time is the value time.time() returns, in seconds.                      *)
(***************************************************************************)
EXTENDS Integers, Sequences, FiniteSets, TLC

\* ------------------------------------------------------------------ bounds

\* number of execute_sql calls made in one behaviour
MaxCalls == 2
\* number of chat tasks submitted (start_chat calls) in one behaviour
MaxTasks == 2
\* number of clock advances in one behaviour
MaxTicks == 2
\* length of the longest "output" list of a MAS payload
MaxItems == 2
\* the value of time.time() when the process starts
StartTime == 1000

\* --------------------------------------------------------------- constants

\* core.py: SQL_CACHE_TTL = 300
SQL_CACHE_TTL == 300

\* router.py line 383: the retention window of the task store, in seconds
RETENTION == 300

Calls == 1..MaxCalls

\* Task ids: uuid.uuid4() hands out a fresh id at every start_chat; the k-th
\* start_chat gets id k. UnknownId is an id start_chat never returns.
TaskIds == 1..MaxTasks
UnknownId == MaxTasks + 1

\* Amounts by which the clock advances in one step, chosen so that both sides
\* of each five-minute window are reached: an entry of the query cache gets
\* 299 and 300 seconds old (served while now - cached_at < ttl), an entry of
\* the task store 300 and 301 seconds (removed when now - created_at > 300).
CacheTickSizes == {1, SQL_CACHE_TTL - 1}
TaskTickSizes == {1, RETENTION}

\* Characters str.strip() removes.
Whitespace == {" ", "\n"}

\* Query texts handed to execute_sql, as sequences of characters.
Queries == { <<"a">>, <<" ", "a", " ">>, <<"b">> }

\* ttl arguments of execute_sql: every call site of router.py uses the default.
TTLs == {SQL_CACHE_TTL}

\* Result sets of the backing warehouse (data_array), as sequences of rows.
DataArrays == { <<>>, <<"r1">> }

\* What ws.statement_execution.execute_statement returns: the statement state
\* ("NONE" stands for response.status being None) and the data array.
Responses ==
    [state : {"SUCCEEDED"}, data : DataArrays]
        \cup [state : {"FAILED", "NONE"}, data : {<<>>}]

VARIABLES
    clock,        \* time.time()
    ticks,        \* number of clock advances made
    sql_cache,    \* core._sql_cache: key -> <<cached_at, rows>>
    sql,          \* the execute_sql calls: locals and position of each
    storedAt,     \* per key, the time at which its entry was last stored
    chat_tasks,   \* router._chat_tasks: task id -> dict
    sub,          \* the start_chat calls: locals and position of each
    wrk,          \* the _run_mas_task threads: position and outcome of each
    lastPoll      \* the ChatTaskOut the latest poll_chat call returned

cacheVars == <<sql_cache, sql, storedAt>>
taskVars == <<chat_tasks, sub, wrk, lastPoll>>
vars == <<clock, ticks, sql_cache, sql, storedAt, chat_tasks, sub, wrk, lastPoll>>

\* ------------------------------------------------------------ str.strip()

RECURSIVE LStrip(_)
LStrip(s) ==
    IF s = <<>> THEN s
    ELSE IF Head(s) \in Whitespace THEN LStrip(Tail(s)) ELSE s

RECURSIVE RStrip(_)
RStrip(s) ==
    IF s = <<>> THEN s
    ELSE IF s[Len(s)] \in Whitespace THEN RStrip(SubSeq(s, 1, Len(s) - 1)) ELSE s

StripAll(s) == SelectSeq(s, LAMBDA ch : ch \notin Whitespace)
Strip(s) == RStrip(LStrip(s))

\* ------------------------------------------------------------ execute_sql

\* dict assignment d[k] = v and d.pop(k, None)
PutEverywhere(d, k, v) == [x \in DOMAIN d \cup {k} |-> v]
Put(d, k, v) == [x \in DOMAIN d \cup {k} |-> IF x = k THEN v ELSE d[x]]
Pop(d, k) == [x \in DOMAIN d \ {k} |-> d[x]]

\* core.py line 131: the entry is served when now - cached_at < ttl
FreshOffByOne(now, cached_at, ttl) == now - cached_at <= ttl
Fresh(now, cached_at, ttl) == now - cached_at < ttl

\* core.py line 144: state = response.status.state if response.status else "UNKNOWN"
StateOf(resp) == IF resp.state = "NONE" THEN "UNKNOWN" ELSE resp.state

\* core.py lines 150-159: the rows a successful response yields
RowsOf(resp) == IF resp.data # <<>> THEN resp.data ELSE <<>>

\* core.py lines 145-159: the cache after the response has been handled
CacheAfterEvict(cache, key, now, resp) ==
    IF StateOf(resp) # "SUCCEEDED"
    THEN [k \in DOMAIN cache \ {key} |-> cache[k]]
    ELSE [k \in DOMAIN cache \cup {key} |-> IF k = key THEN <<now, RowsOf(resp)>> ELSE cache[k]]
CacheAfterSkipEmpty(cache, key, now, resp) ==
    IF StateOf(resp) # "SUCCEEDED" \/ RowsOf(resp) = <<>>
    THEN cache
    ELSE [k \in DOMAIN cache \cup {key} |-> IF k = key THEN <<now, RowsOf(resp)>> ELSE cache[k]]
CacheAfterPoisoned(cache, key, now, resp) ==
    [k \in DOMAIN cache \cup {key} |->
        IF k = key
        THEN IF StateOf(resp) = "SUCCEEDED" THEN <<now, RowsOf(resp)>> ELSE <<now, <<>>>>
        ELSE cache[k]]
CacheAfter(cache, key, now, resp) ==
    IF StateOf(resp) # "SUCCEEDED"
    THEN cache
    ELSE [k \in DOMAIN cache \cup {key} |-> IF k = key THEN <<now, RowsOf(resp)>> ELSE cache[k]]

\* core.py lines 145-159: what the call returns
ReturnOf(resp) == IF StateOf(resp) # "SUCCEEDED" THEN <<>> ELSE RowsOf(resp)

IdleCall ==
    [pc |-> "idle", query |-> <<>>, ttl |-> 0, now |-> 0, seen |-> <<>>,
     invoked |-> 0, state |-> "", result |-> <<>>]

Started(c) == sql[c].pc # "idle"
Finished(c) == sql[c].pc \in {"returned", "raised"}

\* core.py lines 125-138: key and now are computed, the cache is looked up; a
\* fresh entry is returned, otherwise execute_statement is called.
SqlBeginSliding(c, q, ttl) ==
    /\ sql[c].pc = "idle"
    /\ \A d \in 1..(c - 1) : Started(d)
    /\ LET key == Strip(q)
           now == clock
           has == key \in DOMAIN sql_cache
           hit == has /\ Fresh(now, sql_cache[key][1], ttl)
           base == [IdleCall EXCEPT !.query = q, !.ttl = ttl, !.now = now,
                        !.seen = IF has THEN <<sql_cache[key]>> ELSE <<>>]
       IN  /\ sql' = [sql EXCEPT ![c] =
                  IF hit
                  THEN [base EXCEPT !.pc = "returned", !.result = sql_cache[key][2]]
                  ELSE [base EXCEPT !.pc = "executing", !.invoked = 1]]
           /\ sql_cache' = IF hit THEN Put(sql_cache, key, <<now, sql_cache[key][2]>>)
                           ELSE sql_cache
    /\ UNCHANGED <<clock, ticks, storedAt, taskVars>>
SqlBegin(c, q, ttl) ==
    /\ sql[c].pc = "idle"
    /\ \A d \in 1..(c - 1) : Started(d)
    /\ LET key == Strip(q)
           now == clock
           has == key \in DOMAIN sql_cache
           hit == has /\ Fresh(now, sql_cache[key][1], ttl)
           base == [IdleCall EXCEPT !.query = q, !.ttl = ttl, !.now = now,
                        !.seen = IF has THEN <<sql_cache[key]>> ELSE <<>>]
       IN  sql' = [sql EXCEPT ![c] =
                IF hit
                THEN [base EXCEPT !.pc = "returned", !.result = sql_cache[key][2]]
                ELSE [base EXCEPT !.pc = "executing", !.invoked = 1]]
    /\ UNCHANGED <<clock, ticks, sql_cache, storedAt, taskVars>>

\* core.py lines 138-159: execute_statement returns resp; a non-success state
\* returns [] and caches nothing, a success stores (now, rows) and returns rows.
SqlFinishRetry(c, resp) ==
    /\ sql[c].pc = "executing"
    /\ IF StateOf(resp) # "SUCCEEDED" /\ sql[c].invoked < 2
       THEN /\ sql' = [sql EXCEPT ![c].invoked = @ + 1]
            /\ UNCHANGED <<sql_cache, storedAt>>
       ELSE /\ sql_cache' = CacheAfter(sql_cache, Strip(sql[c].query), sql[c].now, resp)
            /\ sql' = [sql EXCEPT ![c].pc = "returned", ![c].state = StateOf(resp),
                                  ![c].result = ReturnOf(resp)]
            /\ storedAt' = IF sql_cache' = sql_cache /\ StateOf(resp) # "SUCCEEDED"
                           THEN storedAt
                           ELSE Put(storedAt, Strip(sql[c].query), clock)
    /\ UNCHANGED <<clock, ticks, taskVars>>
SqlFinish(c, resp) ==
    /\ sql[c].pc = "executing"
    /\ sql_cache' = CacheAfter(sql_cache, Strip(sql[c].query), sql[c].now, resp)
    /\ sql' = [sql EXCEPT ![c].pc = "returned", ![c].state = StateOf(resp),
                          ![c].result = ReturnOf(resp)]
    /\ storedAt' = IF sql_cache' = sql_cache /\ StateOf(resp) # "SUCCEEDED"
                   THEN storedAt
                   ELSE Put(storedAt, Strip(sql[c].query), clock)
    /\ UNCHANGED <<clock, ticks, taskVars>>

\* core.py line 138: execute_statement raises (network error, SDK error); there
\* is no try/except in execute_sql, so the exception leaves the call.
SqlRaise(c) ==
    /\ sql[c].pc = "executing"
    /\ sql' = [sql EXCEPT ![c].pc = "raised", ![c].state = "EXCEPTION"]
    /\ UNCHANGED <<clock, ticks, sql_cache, storedAt, taskVars>>

\* ------------------------------------------------------- chat task store

\* Texts (str), as sequences of characters.
Txt42 == <<"4", "2", " ", "u">>
TxtBlank == <<" ">>
TxtOk == <<"o", "k">>

\* One item of the "output" list of the MAS payload, and one element of its
\* "content" list.
Content(type, text) == [type |-> type, text |-> text]
Item(type, role, content) == [type |-> type, role |-> role, content |-> content]

\* "output" lists of a 200 response.
Outputs ==
    { <<>>,
      << Item("message", "assistant", << Content("output_text", Txt42) >>),
         Item("function_call", "assistant", <<>>),
         Item("message", "assistant", << Content("output_text", TxtBlank) >>) >> }

\* HTTP status codes of the MAS endpoint, as resp.status_code formats them.
StatusCodes == {"200", "503"}

\* str(e) of an exception httpx.post or resp.json() raises.
ExceptionTexts == { <<"ReadTimeout">> }

\* What the external call of a worker does: it returns an HTTP response, or raises.
Outcomes ==
    [kind : {"http"}, code : {"200"}, output : Outputs, text : {<<>>}]
        \cup [kind : {"http"}, code : StatusCodes \ {"200"}, output : {<<>>}, text : {<<>>}]
        \cup [kind : {"raise"}, code : {""}, output : {<<>>}, text : ExceptionTexts]

\* router.py lines 415-418: the first output_text of a content list whose text
\* is not blank, "" when there is none
RECURSIVE FirstText(_)
FirstText(content_list) ==
    IF content_list = <<>> THEN <<>>
    ELSE LET c == Head(content_list)
         IN  IF c.type = "output_text" /\ Strip(c.text) # <<>>
             THEN c.text
             ELSE FirstText(Tail(content_list))

\* router.py lines 407-420: walk output backwards to the last assistant message
\* that has text
ExtractTextForward(output) ==
    LET hits == { i \in DOMAIN output :
                    /\ output[i].type = "message" /\ output[i].role = "assistant"
                    /\ FirstText(output[i].content) # <<>> }
    IN  IF hits = {} THEN <<>>
        ELSE FirstText(output[CHOOSE i \in hits : \A j \in hits : i <= j].content)
RECURSIVE ExtractText(_)
ExtractText(output) ==
    IF output = <<>> THEN <<>>
    ELSE LET item == output[Len(output)]
             text == IF item.type = "message" /\ item.role = "assistant"
                     THEN FirstText(item.content)
                     ELSE <<>>
         IN  IF text # <<>> THEN text
             ELSE ExtractText(SubSeq(output, 1, Len(output) - 1))

\* router.py lines 392, 403, 422, 427, 454: the dicts stored in _chat_tasks
RunningEntry == [status |-> "running", response |-> <<>>]
PendingEntry(now) == [status |-> "pending", response |-> <<>>, created_at |-> now]

\* router.py lines 401-427: the dict the worker stores when its call has ended
TerminalEntryUncaught(o) ==
    IF o.kind = "raise" THEN RunningEntry
    ELSE IF o.code # "200"
         THEN [status |-> "error", response |-> <<"MAS returned ", o.code>>]
         ELSE [status |-> "done", response |-> ExtractText(o.output)]
TerminalEntry(o) ==
    IF o.kind = "raise" THEN [status |-> "error", response |-> o.text]
    ELSE IF o.code # "200"
         THEN [status |-> "error", response |-> <<"MAS returned ", o.code>>]
         ELSE [status |-> "done", response |-> ExtractText(o.output)]

\* router.py line 383: v.get("created_at", 0)
CreatedAtOf(v) == IF "created_at" \in DOMAIN v THEN v.created_at ELSE 0

\* router.py line 383: now - v.get("created_at", 0) > 300
IsStale(now, v) == now - CreatedAtOf(v) > RETENTION

\* router.py lines 465-470: poll_chat
NotFoundEmpty(id) == [task_id |-> id, status |-> "error", response |-> <<>>]
NotFound(id) == [task_id |-> id, status |-> "error", response |-> <<"Task not found">>]
PollResultTorn(id) ==
    IF id \notin DOMAIN chat_tasks
    THEN NotFound(id)
    ELSE [task_id |-> id, status |-> chat_tasks[id].status, response |-> <<>>]
PollResult(id) ==
    IF id \notin DOMAIN chat_tasks
    THEN NotFound(id)
    ELSE [task_id |-> id, status |-> chat_tasks[id].status,
          response |-> chat_tasks[id].response]

\* no poll_chat call has been made yet
NoPoll == [task_id |-> UnknownId, status |-> "none", response |-> <<>>]

\* a start_chat call: calledAt is the time it was called and stamped the time it
\* stored with its pending entry; now, used, visited and stale are the locals
\* of its sweep
IdleSubmit ==
    [pc |-> "idle", calledAt |-> 0, stamped |-> 0, now |-> 0, used |-> 0,
     visited |-> {}, stale |-> {}]
IdleWorker == [pc |-> "idle", outcome |-> [kind |-> "", code |-> "", output |-> <<>>, text |-> <<>>]]

\* router.py lines 442-451: start_chat draws the id and starts the worker thread.
SubmitLaunch(t) ==
    /\ sub[t].pc = "idle"
    /\ \A d \in 1..(t - 1) : sub[d].pc # "idle"
    /\ sub' = [sub EXCEPT ![t].pc = "launched", ![t].calledAt = clock]
    /\ wrk' = [wrk EXCEPT ![t].pc = "start"]
    /\ UNCHANGED <<clock, ticks, cacheVars, chat_tasks, lastPoll>>

\* router.py lines 382-383: _cleanup_old_tasks reads the time and starts to
\* iterate over _chat_tasks.items(); the iterator remembers the dict's size. An
\* empty dict ends the comprehension at once.
JanitorScanBegin(t) ==
    /\ sub[t].pc = "launched"
    /\ sub' = IF DOMAIN chat_tasks = {}
              THEN [sub EXCEPT ![t].pc = "cleaned"]
              ELSE [sub EXCEPT ![t].pc = "scanning",
                               ![t].now = clock,
                               ![t].used = Cardinality(DOMAIN chat_tasks)]
    /\ UNCHANGED <<clock, ticks, cacheVars, chat_tasks, wrk, lastPoll>>

\* router.py line 383: one step of the iteration. The dict iterator raises
\* RuntimeError when the dict's size has changed since the iteration began, and
\* the exception leaves start_chat; otherwise the next item is tested, or the
\* iteration ends.
JanitorScanStep(t) ==
    /\ sub[t].pc = "scanning"
    /\ IF Cardinality(DOMAIN chat_tasks) # sub[t].used
       THEN sub' = [sub EXCEPT ![t] = [IdleSubmit EXCEPT !.pc = "raised", !.calledAt = sub[t].calledAt]]
       ELSE IF DOMAIN chat_tasks \ sub[t].visited = {}
            THEN sub' = [sub EXCEPT ![t].pc = IF sub[t].stale = {} THEN "cleaned" ELSE "popping",
                                    ![t].now = 0, ![t].used = 0, ![t].visited = {}]
            ELSE \E k \in DOMAIN chat_tasks \ sub[t].visited :
                    sub' = [sub EXCEPT ![t].visited = @ \cup {k},
                                       ![t].stale = IF IsStale(sub[t].now, chat_tasks[k])
                                                    THEN @ \cup {k} ELSE @]
    /\ UNCHANGED <<clock, ticks, cacheVars, chat_tasks, wrk, lastPoll>>

\* router.py lines 384-385: one turn of the loop pops one stale key; the loop
\* ends after the last one. Other threads run between two turns.
JanitorPop(t) ==
    /\ sub[t].pc = "popping"
    /\ \E k \in sub[t].stale :
          /\ chat_tasks' = Pop(chat_tasks, k)
          /\ sub' = [sub EXCEPT ![t].pc = IF sub[t].stale = {k} THEN "cleaned" ELSE "popping",
                                ![t].stale = @ \ {k}]
    /\ UNCHANGED <<clock, ticks, cacheVars, wrk, lastPoll>>

\* router.py lines 454-455: the pending entry is stored and the id returned.
SubmitRegister(t) ==
    /\ sub[t].pc = "cleaned"
    /\ chat_tasks' = Put(chat_tasks, t, PendingEntry(clock))
    /\ sub' = [sub EXCEPT ![t].pc = "returned", ![t].stamped = clock]
    /\ UNCHANGED <<clock, ticks, cacheVars, wrk, lastPoll>>

\* router.py line 392: the worker thread's first statement.
WorkerRunning(t) ==
    /\ wrk[t].pc = "start"
    /\ chat_tasks' = Put(chat_tasks, t, RunningEntry)
    /\ wrk' = [wrk EXCEPT ![t].pc = "calling"]
    /\ UNCHANGED <<clock, ticks, cacheVars, sub, lastPoll>>

\* router.py lines 393-427: httpx.post ends with outcome o and the worker
\* stores the terminal entry.
WorkerFinish(t, o) ==
    /\ wrk[t].pc = "calling"
    /\ chat_tasks' = Put(chat_tasks, t, TerminalEntry(o))
    /\ wrk' = [wrk EXCEPT ![t].pc = "finished", ![t].outcome = o]
    /\ UNCHANGED <<clock, ticks, cacheVars, sub, lastPoll>>

\* router.py lines 465-470: a client polls an id start_chat has returned to it,
\* or an id that was never handed out.
PollConsuming(id) ==
    /\ IF id = UnknownId THEN TRUE ELSE sub[id].pc = "returned"
    /\ lastPoll' = PollResult(id)
    /\ chat_tasks' = Pop(chat_tasks, id)
    /\ UNCHANGED <<clock, ticks, cacheVars, sub, wrk>>
Poll(id) ==
    /\ IF id = UnknownId THEN TRUE ELSE sub[id].pc = "returned"
    /\ lastPoll' = PollResult(id)
    /\ UNCHANGED <<clock, ticks, cacheVars, chat_tasks, sub, wrk>>

\* time passes
Tick(d) ==
    /\ ticks < MaxTicks
    /\ clock' = clock + d
    /\ ticks' = ticks + 1
    /\ UNCHANGED <<cacheVars, taskVars>>

Init ==
    /\ clock = StartTime
    /\ ticks = 0
    /\ sql_cache = <<>>
    /\ sql = [c \in Calls |-> IdleCall]
    /\ storedAt = <<>>
    /\ chat_tasks = <<>>
    /\ sub = [t \in TaskIds |-> IdleSubmit]
    /\ wrk = [t \in TaskIds |-> IdleWorker]
    /\ lastPoll = NoPoll

CacheNext ==
    \/ \E c \in Calls, q \in Queries, ttl \in TTLs : SqlBegin(c, q, ttl)
    \/ \E c \in Calls, resp \in Responses : SqlFinish(c, resp)
    \/ \E c \in Calls : SqlRaise(c)
    \/ \E d \in CacheTickSizes : Tick(d)

\* the query cache alone
CacheSpec == Init /\ [][CacheNext]_vars

TaskNext ==
    \/ \E t \in TaskIds : SubmitLaunch(t)
    \/ \E t \in TaskIds : JanitorScanBegin(t)
    \/ \E t \in TaskIds : JanitorScanStep(t)
    \/ \E t \in TaskIds : JanitorPop(t)
    \/ \E t \in TaskIds : SubmitRegister(t)
    \/ \E t \in TaskIds : WorkerRunning(t)
    \/ \E t \in TaskIds, o \in Outcomes : WorkerFinish(t, o)
    \/ \E id \in TaskIds \cup {UnknownId} : Poll(id)
    \/ \E d \in TaskTickSizes : Tick(d)

\* Query texts that differ in leading, trailing and internal whitespace.
KeyQueries ==
    { <<"a">>, <<" ", "a", "\n">>, <<"a", "b">>, <<"a", " ", "b">>, <<"\n", "a", " ", "b">> }

\* execute_sql calls on the texts of KeyQueries, made within one second.
KeyNext ==
    \/ \E c \in Calls, q \in KeyQueries, ttl \in TTLs : SqlBegin(c, q, ttl)
    \/ \E c \in Calls, resp \in Responses : SqlFinish(c, resp)
    \/ \E c \in Calls : SqlRaise(c)

KeySpec == Init /\ [][KeyNext]_vars

\* the id of the first start_chat
FirstId == CHOOSE t \in TaskIds : \A u \in TaskIds : t <= u

\* One chat task and the polls of its id and of an unknown id, while
\* execute_sql calls fill the query cache, all within one second.
PollNext ==
    \/ \E c \in Calls, q \in Queries, ttl \in TTLs : SqlBegin(c, q, ttl)
    \/ \E c \in Calls, resp \in Responses : SqlFinish(c, resp)
    \/ \E c \in Calls : SqlRaise(c)
    \/ SubmitLaunch(FirstId)
    \/ JanitorScanBegin(FirstId)
    \/ JanitorScanStep(FirstId)
    \/ JanitorPop(FirstId)
    \/ SubmitRegister(FirstId)
    \/ WorkerRunning(FirstId)
    \/ \E o \in Outcomes : WorkerFinish(FirstId, o)
    \/ \E id \in {FirstId, UnknownId} : Poll(id)

PollSpec == Init /\ [][PollNext]_vars

\* the chat task store alone
TaskSpec == Init /\ [][TaskNext]_vars

\* The threads that write the registry, start_chat calls and workers, running
\* within one second; no client polls.
WriterNext ==
    \/ \E t \in TaskIds : SubmitLaunch(t)
    \/ \E t \in TaskIds : JanitorScanBegin(t)
    \/ \E t \in TaskIds : JanitorScanStep(t)
    \/ \E t \in TaskIds : JanitorPop(t)
    \/ \E t \in TaskIds : SubmitRegister(t)
    \/ \E t \in TaskIds : WorkerRunning(t)
    \/ \E t \in TaskIds, o \in Outcomes : WorkerFinish(t, o)

\* The writers with the worker threads scheduled: a started thread runs its
\* first statement, and httpx.post ends, at the latest when one of its timeouts
\* (line 399) expires.
WriterFairSpec ==
    /\ Init /\ [][WriterNext]_vars
    /\ \A t \in TaskIds : WF_vars(WorkerRunning(t))
    /\ \A t \in TaskIds : WF_vars(\E o \in Outcomes : WorkerFinish(t, o))

\* "content" lists and items of a MAS payload: text, blank text, no text,
\* another content type, several texts; assistant messages, messages of
\* another role and items of another type.
ExtractContents ==
    { <<>>,
      << Content("output_text", Txt42) >>,
      << Content("output_text", TxtOk) >>,
      << Content("output_text", TxtBlank) >>,
      << Content("refusal", Txt42) >>,
      << Content("output_text", <<>>), Content("output_text", TxtOk), Content("output_text", Txt42) >> }
ExtractItems ==
    { Item(k[1], k[2], c) :
        k \in { <<"message", "assistant">>, <<"message", "user">>, <<"function_call", "assistant">> },
        c \in ExtractContents }
ExtractOutputs == UNION { [1..n -> ExtractItems] : n \in 0..MaxItems }
ExtractOutcomes == [kind : {"http"}, code : {"200"}, output : ExtractOutputs, text : {<<>>}]

\* One chat task, from start_chat to the polls of its result, whose MAS call
\* answers 200 with any payload of ExtractOutputs.
ExtractNext ==
    \/ SubmitLaunch(FirstId)
    \/ JanitorScanBegin(FirstId)
    \/ JanitorScanStep(FirstId)
    \/ JanitorPop(FirstId)
    \/ SubmitRegister(FirstId)
    \/ WorkerRunning(FirstId)
    \/ \E o \in ExtractOutcomes : WorkerFinish(FirstId, o)
    \/ Poll(FirstId)

ExtractSpec == Init /\ [][ExtractNext]_vars

\* ================================================================= claims

KeyOf(c) == Strip(sql[c].query)

\* C1: a call issued after a successful execution for its trimmed text stored
\* its rows, and less than ttl after that execution, does not execute the
\* backing query and returns the rows that execution returned: the backing
\* query is executed once and both calls return identical rows.
C1_OneExecutionWithinTtl ==
    [][ \A c \in Calls :
          /\ (sql[c].pc = "idle" /\ sql'[c].pc # "idle"
                /\ Strip(sql'[c].query) \in DOMAIN sql_cache
                /\ clock - storedAt[Strip(sql'[c].query)] < sql'[c].ttl)
                => /\ sql'[c].pc = "returned"
                   /\ sql'[c].invoked = 0
                   /\ sql'[c].result = sql_cache[Strip(sql'[c].query)][2]
          /\ (sql[c].pc = "executing" /\ sql'[c].pc = "returned" /\ sql'[c].state = "SUCCEEDED")
                => sql_cache'[KeyOf(c)][2] = sql'[c].result ]_vars

\* the entry a call found at its lookup was stale for its ttl
SawStale(r) == r.seen # <<>> /\ r.now - r.seen[1][1] >= r.ttl

\* C2: a call that finds an entry for its key with now - created_at >= ttl
\* (the boundary now - created_at = ttl included) does not return the cached
\* rows but invokes the backing query, and when that succeeds the entry is
\* overwritten with the call's rows and timestamp.
C2_StaleEntryIsReexecuted ==
    [][ \A c \in Calls :
          /\ (sql[c].pc = "idle" /\ sql'[c].pc # "idle" /\ SawStale(sql'[c]))
                => sql'[c].pc = "executing" /\ sql'[c].invoked = 1
          /\ (sql[c].pc = "executing" /\ sql'[c].pc = "returned"
                /\ sql'[c].state = "SUCCEEDED" /\ SawStale(sql[c]))
                => /\ KeyOf(c) \in DOMAIN sql_cache'
                   /\ sql_cache'[KeyOf(c)] = <<sql[c].now, sql'[c].result>>
                   /\ sql_cache'[KeyOf(c)][1] > sql[c].seen[1][1] ]_vars

\* C2 witness: a call found an entry exactly ttl old, executed the backing query
\* and replaced the entry by other rows.
C2_Witness ==
    \E c \in Calls :
        /\ sql[c].pc = "returned" /\ sql[c].state = "SUCCEEDED" /\ sql[c].invoked = 1
        /\ sql[c].seen # <<>>
        /\ sql[c].now - sql[c].seen[1][1] = sql[c].ttl
        /\ KeyOf(c) \in DOMAIN sql_cache
        /\ sql_cache[KeyOf(c)] = <<sql[c].now, sql[c].result>>
        /\ sql[c].result # sql[c].seen[1][2]

\* C3: when the backing query reports a non-success state the call returns an
\* empty row sequence and the cache map is left as it was.
C3_FailureLeavesCache ==
    [][ \A c \in Calls :
          (sql[c].pc = "executing" /\ sql'[c].pc = "returned" /\ sql'[c].state # "SUCCEEDED")
            => sql'[c].result = <<>> /\ sql_cache' = sql_cache ]_vars

\* C3 witness: a call that found no entry got a non-success state and returned
\* [], while the entry a concurrent call stored for the key meanwhile is still
\* there with its rows.
C3_Witness ==
    \E c \in Calls :
        /\ sql[c].pc = "returned" /\ sql[c].invoked = 1
        /\ sql[c].state \in {"FAILED", "UNKNOWN"}
        /\ sql[c].seen = <<>> /\ sql[c].result = <<>>
        /\ KeyOf(c) \in DOMAIN sql_cache
        /\ sql_cache[KeyOf(c)][2] # <<>>
        /\ Fresh(clock, sql_cache[KeyOf(c)][1], sql[c].ttl)

\* C4: no execute_sql call propagates a failure: a call whose backing query
\* did not succeed, whatever the way it failed, ends returning an empty row
\* sequence.
C4_NoFailurePropagates ==
    \A c \in Calls :
        (Finished(c) /\ sql[c].invoked = 1 /\ sql[c].state # "SUCCEEDED")
            => sql[c].pc = "returned" /\ sql[c].result = <<>>

\* C5: a poll of a task id made after start_chat returned it and before its
\* worker wrote a terminal state answers pending or running.
C5_PollBeforeCompletion ==
    \A t \in TaskIds :
        (sub[t].pc = "returned" /\ wrk[t].pc # "finished")
            => PollResult(t).status \in {"pending", "running"}

\* C6: a poll of a task id made after its worker wrote done or error answers
\* done or error.
C6_PollAfterCompletion ==
    \A t \in TaskIds :
        (sub[t].pc = "returned" /\ wrk[t].pc = "finished")
            => PollResult(t).status \in {"done", "error"}

StatusOrder ==
    { <<"pending", "running">>, <<"running", "done">>, <<"running", "error">> }

\* C7: the status stored for a task id changes only along
\* pending -> running -> {done, error}.
C7_StatusMonotone ==
    [][ \A t \in DOMAIN chat_tasks \cap DOMAIN chat_tasks' :
          \/ chat_tasks'[t].status = chat_tasks[t].status
          \/ <<chat_tasks[t].status, chat_tasks'[t].status>> \in StatusOrder ]_vars

\* C8: the sweep of another start_chat removes the entry of a task whose id has
\* been returned only when that task was submitted more than 300 s ago.
C8_RemovedOnlyWhenExpired ==
    [][ \A t \in DOMAIN chat_tasks \ DOMAIN chat_tasks' :
          (sub[t].pc = "returned"
             /\ \E s \in TaskIds \ {t} : sub[s].pc = "popping" /\ sub'[s] # sub[s])
            => clock - sub[t].calledAt > RETENTION ]_vars

\* start_chat has returned the id of t, its worker has ended, and no other
\* start_chat is under way or came after it
Settled(t) ==
    /\ sub[t].pc = "returned"
    /\ wrk[t].pc = "finished"
    /\ \A s \in TaskIds \ {t} :
          IF s > t THEN sub[s].pc = "idle" ELSE sub[s].pc \in {"returned", "raised"}

\* C9: once a task is settled, a poll answers with its worker's outcome: error
\* with a result containing the status code c when the external call returned
\* c # 200, done with the final assistant text when it returned 200.
C9_OutcomeObservable ==
    \A t \in TaskIds :
        (Settled(t) /\ wrk[t].outcome.kind = "http")
            => IF wrk[t].outcome.code # "200"
               THEN /\ PollResult(t).status = "error"
                    /\ \E i \in DOMAIN PollResult(t).response :
                          PollResult(t).response[i] = wrk[t].outcome.code
               ELSE /\ PollResult(t).status = "done"
                    /\ PollResult(t).response = ExtractText(wrk[t].outcome.output)

\* C10: once a poll of an id has answered error, the next poll of that id
\* answers error too.
C10_ErrorIsFinal ==
    [][ (lastPoll.status = "error" /\ lastPoll'.task_id = lastPoll.task_id)
            => lastPoll'.status = "error" ]_vars

\* C11: in every start_chat the pending entry of the new id is stored before the
\* worker of that id is launched: at the launch the registry holds the pending
\* entry, and the pending write never replaces an entry the worker has written.
C11_PendingBeforeLaunch ==
    [][ \A t \in TaskIds :
          /\ (wrk[t].pc = "idle" /\ wrk'[t].pc # "idle")
                => t \in DOMAIN chat_tasks /\ chat_tasks[t].status = "pending"
          /\ (sub[t].pc = "cleaned" /\ sub'[t].pc = "returned")
                => wrk[t].pc = "idle" ]_vars

\* C12: a poll of an id that is not a key of the registry, because start_chat
\* never returned it or because a sweep has removed its entry, answers with
\* that id, status error and response "Task not found".
C12_AbsentIdNotFound ==
    [][ \A id \in TaskIds \cup {UnknownId} :
          (lastPoll' # lastPoll /\ lastPoll'.task_id = id /\ id \notin DOMAIN chat_tasks)
            => /\ lastPoll'.status = "error"
               /\ lastPoll'.response = <<"Task not found">>
               /\ chat_tasks' = chat_tasks ]_vars

\* C12 witness: start_chat returned an id, a later start_chat's sweep removed
\* its entry, and the poll of the id answered "Task not found".
C12_Witness ==
    \E t \in TaskIds :
        /\ sub[t].pc = "returned"
        /\ t \notin DOMAIN chat_tasks
        /\ \E s \in TaskIds \ {t} : sub[s].pc = "cleaned"
        /\ lastPoll = [task_id |-> t, status |-> "error", response |-> <<"Task not found">>]

\* C13: in the state right after the sweep of a start_chat has completed, the
\* registry holds no entry of a task that start_chat had registered more than
\* 300 s before the sweeping start_chat was called, whatever the entry's status.
C13_SweptAfterRetention ==
    [][ \A s \in TaskIds :
          (sub[s].pc \in {"launched", "scanning", "popping"} /\ sub'[s].pc = "cleaned")
            => \A t \in DOMAIN chat_tasks' :
                  ~ (sub[t].pc = "returned" /\ sub[s].calledAt - sub[t].stamped > RETENTION) ]_vars

\* an element of a content list that carries text, and an output item that is
\* an assistant message with such an element
HasText(c) == c.type = "output_text" /\ Strip(c.text) # <<>>
IsAnswer(item) ==
    /\ item.type = "message" /\ item.role = "assistant"
    /\ \E i \in DOMAIN item.content : HasText(item.content[i])

\* C15: when the MAS call answers 200 the worker stores status done, and as
\* response a non-blank text of the last item of the output list that is an
\* assistant message with non-blank text; items of other types or roles and
\* assistant messages whose texts are all blank are passed over; when no item
\* qualifies the response is "" and the status still done.
C15_LastAssistantText ==
    [][ \A t \in TaskIds :
          (wrk[t].pc = "calling" /\ wrk'[t].pc = "finished"
             /\ wrk'[t].outcome.kind = "http" /\ wrk'[t].outcome.code = "200")
            => LET output == wrk'[t].outcome.output
                   answers == { i \in DOMAIN output : IsAnswer(output[i]) }
                   entry == chat_tasks'[t]
               IN  /\ entry.status = "done"
                   /\ IF answers = {}
                      THEN entry.response = <<>>
                      ELSE LET last == CHOOSE i \in answers : \A j \in answers : j <= i
                           IN  /\ entry.response # <<>>
                               /\ \E k \in DOMAIN output[last].content :
                                     /\ HasText(output[last].content[k])
                                     /\ entry.response = output[last].content[k].text ]_vars

\* C15 witness: the payload held two assistant messages with different texts,
\* and the worker stored done with the text of the later one.
C15_Witness ==
    \E t \in TaskIds :
        /\ wrk[t].pc = "finished"
        /\ wrk[t].outcome.kind = "http" /\ wrk[t].outcome.code = "200"
        /\ LET output == wrk[t].outcome.output
           IN  /\ Len(output) >= 2
               /\ IsAnswer(output[Len(output)])
               /\ IsAnswer(output[1])
               /\ FirstText(output[1].content) # FirstText(output[Len(output)].content)
               /\ t \in DOMAIN chat_tasks
               /\ chat_tasks[t].status = "done"
               /\ chat_tasks[t].response = FirstText(output[Len(output)].content)

\* the registry shows task t as running
ShowsRunning(t) == t \in DOMAIN chat_tasks /\ chat_tasks[t].status = "running"

\* C16: when the external call of a worker raises, the worker stores status
\* error with the text of the exception as response; every launched worker
\* reaches its terminal write, and no entry stays running for ever.
C16_FailureCaughtInWorker ==
    /\ [][ \A t \in TaskIds :
             (wrk[t].pc = "calling" /\ wrk'[t].pc # "calling")
               => /\ wrk'[t].pc = "finished"
                  /\ chat_tasks'[t].status \in {"done", "error"}
                  /\ wrk'[t].outcome.kind = "raise"
                       => chat_tasks'[t] = [status |-> "error",
                                            response |-> wrk'[t].outcome.text] ]_vars
    /\ \A t \in TaskIds : (wrk[t].pc \in {"start", "calling"}) ~> (wrk[t].pc = "finished")
    /\ \A t \in TaskIds : ShowsRunning(t) ~> ~ ShowsRunning(t)

\* C16 witness: the external call raised, and the registry shows the task as
\* error with the text of the exception.
C16_Witness ==
    \E t \in TaskIds :
        /\ wrk[t].pc = "finished"
        /\ wrk[t].outcome.kind = "raise"
        /\ wrk[t].outcome.text # <<>>
        /\ t \in DOMAIN chat_tasks
        /\ chat_tasks[t] = [status |-> "error", response |-> wrk[t].outcome.text]

\* C17: once start_chat has stored the pending entry of an id, the entry of
\* that id carries status, response and the created_at start_chat stamped,
\* also after the worker has replaced it.
C17_CreatedAtPreserved ==
    \A t \in DOMAIN chat_tasks :
        sub[t].pc = "returned"
            => /\ {"status", "response", "created_at"} \subseteq DOMAIN chat_tasks[t]
               /\ CreatedAtOf(chat_tasks[t]) = sub[t].stamped

\* the entries of the ids other than t are the same before and after the step
OthersUntouched(t) ==
    \A u \in TaskIds \ {t} :
        /\ u \in DOMAIN chat_tasks' <=> u \in DOMAIN chat_tasks
        /\ u \in DOMAIN chat_tasks => chat_tasks'[u] = chat_tasks[u]

\* C18: the worker of a task writes the registry in a fixed order: its first
\* step stores running for its own id, its next and last step stores done or
\* error for its own id, it writes nothing after that and never touches the
\* entry of another id; the registry changes only in a step of a worker or of
\* a start_chat.
C18_WorkerWritesOrdered ==
    [][ /\ \A t \in TaskIds :
             /\ wrk'[t] # wrk[t]
                  => <<wrk[t].pc, wrk'[t].pc>> \in
                        { <<"idle", "start">>, <<"start", "calling">>, <<"calling", "finished">> }
             /\ (wrk[t].pc = "idle" /\ wrk'[t].pc = "start")
                  => chat_tasks' = chat_tasks
             /\ (wrk[t].pc = "start" /\ wrk'[t].pc = "calling")
                  => /\ t \in DOMAIN chat_tasks'
                     /\ chat_tasks'[t].status = "running"
                     /\ OthersUntouched(t)
             /\ (wrk[t].pc = "calling" /\ wrk'[t].pc = "finished")
                  => /\ t \in DOMAIN chat_tasks'
                     /\ chat_tasks'[t].status \in {"done", "error"}
                     /\ OthersUntouched(t)
        /\ chat_tasks' # chat_tasks
             => \E t \in TaskIds : wrk'[t].pc # wrk[t].pc \/ sub'[t].pc # sub[t].pc
                                     \/ sub'[t].stale # sub[t].stale ]_vars

\* C18 witness: two workers have made both their writes, one ended done and
\* the other error, and each entry shows its own worker's terminal status.
C18_Witness ==
    \E t \in TaskIds, u \in TaskIds :
        /\ wrk[t].pc = "finished" /\ wrk[u].pc = "finished"
        /\ wrk[t].outcome.kind = "http" /\ wrk[t].outcome.code = "200"
        /\ wrk[u].outcome.kind = "raise"
        /\ t \in DOMAIN chat_tasks /\ u \in DOMAIN chat_tasks
        /\ chat_tasks[t].status = "done"
        /\ chat_tasks[u].status = "error"

\* C19: every id start_chat returns has a worker, and a worker runs only for an
\* id that its start_chat returns: no worker has been started for the id of a
\* start_chat that ended without returning it; a worker, once started, is
\* never started again.
C19_OneWorkerPerReturnedId ==
    \A t \in TaskIds :
        /\ sub[t].pc = "returned" => wrk[t].pc # "idle"
        /\ sub[t].pc \in {"idle", "raised"} => wrk[t].pc = "idle"

\* C20: the sweep of a start_chat begins before that start_chat has launched
\* its worker, the pending entry is stored only after the sweep has completed,
\* and a key leaves the registry only in the sweep of a start_chat.
C20_SweepFirstInSubmit ==
    [][ /\ \A s \in TaskIds :
             /\ (sub[s].pc = "launched" /\ sub'[s].pc # "launched") => wrk[s].pc = "idle"
             /\ (sub[s].pc # "returned" /\ sub'[s].pc = "returned") => sub[s].pc = "cleaned"
        /\ ~ (DOMAIN chat_tasks \subseteq DOMAIN chat_tasks')
             => \E s \in TaskIds : sub[s].pc = "popping" /\ sub'[s] # sub[s] ]_vars

\* C21: no start_chat call fails in its sweep: whatever the workers insert or
\* replace while the sweep scans the registry, the call goes on to store its
\* pending entry and return its id.
C21_SubmitNeverFails ==
    \A t \in TaskIds : sub[t].pc # "raised"

\* C22: the answer of a poll of a present id carries the status and the
\* response of one and the same entry, the one stored when the poll reads: an
\* answer pending or running has response "", and an answer done has the text
\* the worker stored with done.
C22_PollIsOneSnapshot ==
    [][ \A id \in TaskIds :
          (lastPoll' # lastPoll /\ lastPoll'.task_id = id /\ id \in DOMAIN chat_tasks)
            => /\ lastPoll'.status = chat_tasks[id].status
               /\ lastPoll'.response = chat_tasks[id].response
               /\ lastPoll'.status \in {"pending", "running"} => lastPoll'.response = <<>>
               /\ lastPoll'.status = "done"
                    => /\ wrk[id].pc = "finished"
                       /\ wrk[id].outcome.kind = "http" /\ wrk[id].outcome.code = "200"
                       /\ lastPoll'.response = ExtractText(wrk[id].outcome.output) ]_vars

\* C22 witness: a poll answered done with a non-empty text while the worker of
\* another task was between its two writes.
C22_Witness ==
    \E t \in TaskIds, u \in TaskIds :
        /\ lastPoll.task_id = t /\ lastPoll.status = "done" /\ lastPoll.response # <<>>
        /\ wrk[t].pc = "finished"
        /\ lastPoll.response = ExtractText(wrk[t].outcome.output)
        /\ wrk[u].pc = "calling"

\* C23: the created_at stored with a cache entry is the time at which the
\* successful execution's rows are stored.
C23_StampedAtStore ==
    [][ \A c \in Calls :
          (sql[c].pc = "executing" /\ sql'[c].pc = "returned" /\ sql'[c].state = "SUCCEEDED")
            => sql_cache'[KeyOf(c)][1] = clock ]_vars

\* C24: a call that misses invokes the backing query even while another call
\* for the same key is executing, and a store never replaces the entry of a key
\* by one with an older created_at.
C24_NoOlderOverwrite ==
    [][ \A c \in Calls :
          /\ (sql[c].pc = "idle" /\ sql'[c].pc # "idle"
                /\ Strip(sql'[c].query) \notin DOMAIN sql_cache)
                => sql'[c].pc = "executing" /\ sql'[c].invoked = 1
          /\ (sql[c].pc = "executing" /\ sql'[c].pc = "returned"
                /\ sql'[c].state = "SUCCEEDED" /\ KeyOf(c) \in DOMAIN sql_cache)
                => sql_cache'[KeyOf(c)][1] >= sql_cache[KeyOf(c)][1] ]_vars

\* C25: a successful execution with zero rows stores an entry with an empty
\* row sequence; a call that finds such an entry fresh returns the empty
\* sequence without invoking the backing query; a failed execution stores
\* nothing, so that a call finding no entry for the key invokes it.
C25_EmptySuccessIsCached ==
    [][ \A c \in Calls :
          /\ (sql[c].pc = "executing" /\ sql'[c].pc = "returned"
                /\ sql'[c].state = "SUCCEEDED" /\ sql'[c].result = <<>>)
                => /\ KeyOf(c) \in DOMAIN sql_cache'
                   /\ sql_cache'[KeyOf(c)] = <<sql[c].now, <<>>>>
          /\ (sql[c].pc = "idle" /\ sql'[c].pc # "idle"
                /\ Strip(sql'[c].query) \in DOMAIN sql_cache
                /\ sql_cache[Strip(sql'[c].query)][2] = <<>>
                /\ clock - sql_cache[Strip(sql'[c].query)][1] < sql'[c].ttl)
                => /\ sql'[c].pc = "returned"
                   /\ sql'[c].invoked = 0
                   /\ sql'[c].result = <<>>
          /\ (sql[c].pc = "executing" /\ sql'[c].pc = "returned"
                /\ sql'[c].state # "SUCCEEDED")
                => /\ sql'[c].result = <<>>
                   /\ DOMAIN sql_cache' = DOMAIN sql_cache
          /\ (sql[c].pc = "idle" /\ sql'[c].pc # "idle"
                /\ Strip(sql'[c].query) \notin DOMAIN sql_cache)
                => sql'[c].pc = "executing" /\ sql'[c].invoked = 1 ]_vars

\* C25 witness: one call executed the backing query, which succeeded with zero
\* rows; a later call for the same key, made 299 s or more after the first,
\* returned the empty sequence without invoking it.
C25_Witness ==
    \E c \in Calls, d \in Calls :
        /\ sql[c].pc = "returned" /\ sql[c].state = "SUCCEEDED"
        /\ sql[c].invoked = 1 /\ sql[c].result = <<>>
        /\ sql[d].pc = "returned" /\ sql[d].invoked = 0 /\ sql[d].result = <<>>
        /\ KeyOf(d) = KeyOf(c)
        /\ sql[d].seen = << <<sql[c].now, <<>>>> >>
        /\ sql[d].now - sql[c].now >= SQL_CACHE_TTL - 1

\* C26: a call that is served from the cache returns the stored rows and
\* leaves the cache map as it was, created_at included; a call is served an
\* entry only less than ttl after the entry's created_at, and so less than ttl
\* after the entry was stored, however many hits came before.
C26_HitLeavesCache ==
    [][ \A c \in Calls :
          (sql[c].pc = "idle" /\ sql'[c].pc # "idle")
            => LET key == Strip(sql'[c].query)
               IN  /\ sql_cache' = sql_cache
                   /\ sql'[c].pc = "returned"
                        => /\ key \in DOMAIN sql_cache
                           /\ sql'[c].result = sql_cache[key][2]
                           /\ clock - sql_cache[key][1] < sql'[c].ttl
                           /\ clock - storedAt[key] < sql'[c].ttl
                   /\ (key \in DOMAIN sql_cache
                         /\ clock >= sql_cache[key][1] + sql'[c].ttl)
                        => sql'[c].pc = "executing" ]_vars

\* C26 witness: an entry with rows was served 299 s after its created_at, and
\* the entry is still stored with that created_at.
C26_Witness ==
    \E c \in Calls, d \in Calls :
        /\ sql[c].pc = "returned" /\ sql[c].state = "SUCCEEDED" /\ sql[c].result # <<>>
        /\ sql[d].pc = "returned" /\ sql[d].invoked = 0
        /\ KeyOf(d) = KeyOf(c)
        /\ sql[d].result = sql[c].result
        /\ sql[d].now - sql[c].now = sql[d].ttl - 1
        /\ sql_cache[KeyOf(c)] = <<sql[c].now, sql[c].result>>

\* the text between the first and the last character of q that is not
\* whitespace
Core(q) ==
    LET solid == { i \in DOMAIN q : q[i] \notin Whitespace }
    IN  IF solid = {} THEN <<>>
        ELSE SubSeq(q, CHOOSE i \in solid : \A j \in solid : i <= j,
                       CHOOSE i \in solid : \A j \in solid : j <= i)

\* C27: a call looks up and stores under its text without leading and trailing
\* whitespace and nothing else changed: it is served the entry of that key
\* only, and its store changes the entry of that key only, so calls whose
\* texts differ elsewhere than in leading or trailing whitespace never see or
\* change each other's entry.
C27_KeyIsTrimmedText ==
    [][ \A c \in Calls :
          /\ (sql[c].pc = "idle" /\ sql'[c].pc # "idle")
                => LET key == Core(sql'[c].query)
                   IN  /\ sql'[c].seen = IF key \in DOMAIN sql_cache
                                         THEN <<sql_cache[key]>> ELSE <<>>
                       /\ sql'[c].pc = "returned" => sql'[c].result = sql_cache[key][2]
          /\ (sql[c].pc = "executing" /\ sql'[c].pc # "executing")
                => LET key == Core(sql[c].query)
                   IN  /\ sql'[c].state = "SUCCEEDED"
                            => /\ key \in DOMAIN sql_cache'
                               /\ sql_cache'[key][2] = sql'[c].result
                       /\ \A k \in (DOMAIN sql_cache \cup DOMAIN sql_cache') \ {key} :
                            /\ k \in DOMAIN sql_cache /\ k \in DOMAIN sql_cache'
                            /\ sql_cache'[k] = sql_cache[k] ]_vars

\* C27 witness: two calls whose texts differ in internal whitespace only each
\* executed the backing query and each has its own entry with its own rows.
C27_Witness ==
    \E c \in Calls, d \in Calls :
        /\ StripAll(sql[c].query) = StripAll(sql[d].query)
        /\ Core(sql[c].query) # Core(sql[d].query)
        /\ sql[c].query # Core(sql[c].query)
        /\ sql[c].pc = "returned" /\ sql[c].state = "SUCCEEDED" /\ sql[c].invoked = 1
        /\ sql[d].pc = "returned" /\ sql[d].state = "SUCCEEDED" /\ sql[d].invoked = 1
        /\ sql[d].seen = <<>>
        /\ sql[c].result # sql[d].result
        /\ sql_cache[Core(sql[c].query)][2] = sql[c].result
        /\ sql_cache[Core(sql[d].query)][2] = sql[d].result

\* C28: a call invokes the backing query at its lookup or never: not when it
\* is served a fresh entry, once when it finds no entry or a stale one; the
\* invocation ends before the call returns, and a call whose invocation has
\* ended, in success or failure, invokes nothing more.
C28_AtMostOneInvocation ==
    [][ \A c \in Calls :
          /\ (sql[c].pc = "idle" /\ sql'[c].pc # "idle")
                => LET key == Strip(sql'[c].query)
                       hit == key \in DOMAIN sql_cache
                                /\ clock - sql_cache[key][1] < sql'[c].ttl
                   IN  IF hit
                       THEN sql'[c].invoked = 0 /\ sql'[c].pc = "returned"
                       ELSE sql'[c].invoked = 1 /\ sql'[c].pc = "executing"
          /\ sql[c].pc # "idle"
                => /\ sql'[c].invoked = sql[c].invoked
                   /\ sql'[c].pc # sql[c].pc
                        => sql[c].pc = "executing" /\ sql'[c].pc \in {"returned", "raised"} ]_vars

\* C28 witness: two calls each invoked the backing query once; one got a
\* response without status, the other an exception, and both have ended.
C28_Witness ==
    \E c \in Calls, d \in Calls :
        /\ sql[c].pc = "returned" /\ sql[c].state = "UNKNOWN" /\ sql[c].invoked = 1
        /\ sql[d].pc = "raised" /\ sql[d].invoked = 1
        /\ KeyOf(c) = KeyOf(d)

\* C29: no step removes a key from the query cache; the entry of a key changes
\* only in the step that ends a successful execution for that key; a call that
\* found a stale entry and whose execution failed leaves the entry as it was
\* and returns the empty sequence, not the stale rows.
C29_EntriesNeverDeleted ==
    [][ /\ DOMAIN sql_cache \subseteq DOMAIN sql_cache'
        /\ \A k \in DOMAIN sql_cache :
             sql_cache'[k] # sql_cache[k]
               => \E c \in Calls :
                     /\ sql[c].pc = "executing" /\ sql'[c].pc = "returned"
                     /\ sql'[c].state = "SUCCEEDED" /\ KeyOf(c) = k
        /\ \A c \in Calls :
             (sql[c].pc = "executing" /\ sql'[c].pc # "executing"
                /\ sql'[c].state # "SUCCEEDED" /\ KeyOf(c) \in DOMAIN sql_cache)
               => /\ sql_cache'[KeyOf(c)] = sql_cache[KeyOf(c)]
                  /\ sql'[c].result = <<>> ]_vars

\* C29 witness: a call found an entry with rows stale, its execution failed,
\* it returned the empty sequence and the stale entry is still stored.
C29_Witness ==
    \E c \in Calls :
        /\ sql[c].pc = "returned" /\ sql[c].state = "FAILED" /\ sql[c].invoked = 1
        /\ SawStale(sql[c])
        /\ sql[c].seen[1][2] # <<>>
        /\ sql[c].result = <<>>
        /\ KeyOf(c) \in DOMAIN sql_cache
        /\ sql_cache[KeyOf(c)] = sql[c].seen[1]

\* C30: a poll changes neither the task registry nor the query cache, whether
\* the id is present, in any status, or absent, and it answers at once with
\* the status it finds.
C30_PollChangesNothing ==
    [][ lastPoll' # lastPoll
          => /\ chat_tasks' = chat_tasks
             /\ sql_cache' = sql_cache
             /\ sub' = sub /\ wrk' = wrk /\ sql' = sql
             /\ lastPoll'.task_id \in DOMAIN chat_tasks
                  => lastPoll'.status = chat_tasks[lastPoll'.task_id].status ]_vars

\* C30 witness: a poll answered running while the worker's call was under way;
\* the running entry and the entries of the query cache are still stored.
C30_Witness ==
    \E t \in TaskIds :
        /\ lastPoll.task_id = t /\ lastPoll.status = "running"
        /\ wrk[t].pc = "calling"
        /\ t \in DOMAIN chat_tasks /\ chat_tasks[t].status = "running"
        /\ DOMAIN sql_cache # {}

====
